---- MODULE Spec2Model ----
(***************************************************************************)
(* Model of the business-name generator: src/app_API.py (FastAPI, the      *)
(* sequential variant) and src/app.py (Streamlit, the fan-out variant).    *)
(*                                                                         *)
(* Strings are sequences of one-character strings.  The text returned by   *)
(* the completion client is a sequence of tokens (see "Completion text").  *)
(***************************************************************************)
EXTENDS Integers, Sequences, FiniteSets, TLC

VARIABLES
    primary_index,      \* module global: "None" or "Index"
    trademark_index,    \* module global: "None" or "Index"
    primary_db,         \* original_data values stored in the primary index
    tm_records,         \* ranked records of the trademark index
    primary_fault,      \* batch positions whose primary query raises
    tm_fault,           \* batch positions whose trademark query raises
    description,        \* the request's description
    completion,         \* what client.chat.completions.create does for the request
    name,               \* argument of a direct NameValidator call
    pc,                 \* "idle" before the operation, "done" after it
    op,                 \* the operation that ran
    completion_calls,   \* calls made to client.chat.completions.create
    queries,            \* vector-store queries issued (both indexes)
    checked,            \* names passed to name_exists_in_database, in batch order
    suggestions,        \* generate_business_names' local: what the parsing step left
    unique_suggestions, \* the list generate_business_names returned
    raised,             \* whether the operation let an exception escape
    status_code,        \* HTTP status of POST /generate-names (0: none)
    body,               \* "suggestions" of the 200 response
    messages,           \* Streamlit notices shown: st.warning / st.info / st.error
    generated_names,    \* st.session_state.generated_names
    ret,                \* return value of a direct NameValidator call
    task,               \* executor.map's tasks: "queued", "running" or "done" per batch position
    validation_results, \* what validate_name returned per batch position
    overtaken,          \* whether a task finished before a task submitted earlier
    thread,             \* the index-check threads: control point and outcome
    pinecone_lock,      \* the thread that holds the lock, or Free
    session             \* per browser session: the flag and the verify_indexes thread

envVars == <<primary_index, trademark_index, primary_db, tm_records,
             primary_fault, tm_fault>>
inVars  == <<description, completion, name>>
outVars == <<completion_calls, queries, checked, suggestions,
             unique_suggestions, raised, status_code, body, messages,
             generated_names, ret>>
conVars == <<task, validation_results, overtaken, thread, pinecone_lock, session>>
vars    == <<envVars, inVars, pc, op, outVars, conVars>>

----------------------------------------------------------------------------
(* Program constants *)

\* app_API.py:211 `if len(unique_suggestions) == 12: break`
SeqTarget == 12
\* app.py:221 `return unique_suggestions[:12]`
SliceLimit == 12
\* app.py:218 / app.py:373 `if len(...) < 6`
MinDisplay == 6
\* app_API.py:120 / app.py:119 `top_k=10`
TopK == 10
\* app.py:211 `ThreadPoolExecutor(max_workers=20)`
MaxWorkers == 20

(* Bounds of the model *)

\* longest name / word-mark head enumerated exhaustively
MaxNameLen == 2
MaxHeadLen == 2
\* longest batch enumerated over every sequence of BatchNames
MaxShort == 2
\* longest batch of pairwise different names (beyond the target count)
MaxLong == 13
\* most chunks of a free-form completion text
MaxChunks == 2
\* length of a batch of pairwise different names below the slice limit
MaxFan == 10
\* longest batch whose index checks are followed thread by thread
MaxLockBatch == 2
\* browser sessions, and runs of main with the button clicked
MaxSessions == 2
MaxRuns == 2

----------------------------------------------------------------------------
(* Python str operations *)

Chars == {"a", "A", "b", " ", "-"}
Whitespace == {" "}

Min(a, b) == IF a < b THEN a ELSE b

\* all strings over S of length at most n
StrUpTo(S, n) == UNION {[1..k -> S] : k \in 0..n}

\* str.lower() on one character
LowerChar(c) == CASE c = "A" -> "a" [] c = "B" -> "b" [] OTHER -> c

\* str.lower()
Lower(s) == [i \in 1..Len(s) |-> LowerChar(s[i])]

\* sub occurs in s at index i
OccursAt(sub, s, i) ==
    /\ i + Len(sub) - 1 <= Len(s)
    /\ \A j \in 1..Len(sub) : s[i + j - 1] = sub[j]

\* Python `sub in s`
Contains(sub, s) == \E i \in 1..(Len(s) + 1) : OccursAt(sub, s, i)

\* index of the first occurrence of sub in s, 0 when there is none
FirstIndex(sub, s) ==
    IF Contains(sub, s)
    THEN CHOOSE i \in 1..(Len(s) + 1) :
            /\ OccursAt(sub, s, i)
            /\ \A j \in 1..(i - 1) : ~OccursAt(sub, s, j)
    ELSE 0

\* Python `s.split(sep)[0]`
SplitFirst(s, sep) ==
    LET i == FirstIndex(sep, s)
    IN  IF i = 0 THEN s ELSE SubSeq(s, 1, i - 1)

\* Python `s.strip()`
Strip(s) ==
    LET keep == {i \in 1..Len(s) : s[i] \notin Whitespace}
    IN  IF keep = {} THEN <<>>
        ELSE SubSeq(s, CHOOSE i \in keep : \A j \in keep : i <= j,
                       CHOOSE i \in keep : \A j \in keep : i >= j)

Dash == <<"-">>
SpacedDash == <<" ", "-", " ">>

----------------------------------------------------------------------------
(* NameValidator.  A check's outcome is [raised, val, q]: whether an        *)
(* exception escaped, the value returned, and the queries it issued.       *)

Ret(r, v, q) == [raised |-> r, val |-> v, q |-> q]

\* a record of the trademark index: metadata None, or a dict that may hold wordMark
\* app.py:32 pinecone_lock when no thread holds it
Free == <<0, "none">>

NoMetadata == [meta |-> "None", has |-> FALSE, wordMark |-> <<>>]
NoWordMark == [meta |-> "dict", has |-> FALSE, wordMark |-> <<>>]
WordMark(w) == [meta |-> "dict", has |-> TRUE, wordMark |-> w]

\* app_API.py:115 main_name = name.split('-')[0].strip()
MainName(n) == Strip(SplitFirst(n, Dash))

\* app_API.py:130-133, a variant without the .strip() of line 131
TrademarkMainNoStrip(trademark) ==
    IF Contains(SpacedDash, trademark)
    THEN SplitFirst(trademark, SpacedDash)
    ELSE trademark

\* app_API.py:130-133
TrademarkMain(trademark) ==
    IF Contains(SpacedDash, trademark)
    THEN Strip(SplitFirst(trademark, SpacedDash))
    ELSE trademark

\* app_API.py:136-137
Similar(main_name, trademark_main) ==
    \/ Contains(Lower(main_name), Lower(trademark_main))
    \/ Contains(Lower(trademark_main), Lower(main_name))

\* the trademark query of app_API.py:118-122: the top_k best records
TrademarkQuery == SubSeq(tm_records, 1, Min(TopK, Len(tm_records)))

\* app_API.py:125-140: the loop over results.matches, from match i on
RECURSIVE InspectMatches(_, _, _)
InspectMatches(matches, main_name, i) ==
    IF i > Len(matches) THEN Ret(FALSE, FALSE, 1)
    ELSE IF matches[i].meta = "None" THEN Ret(TRUE, FALSE, 1)
    ELSE IF /\ matches[i].has
            /\ Similar(main_name, TrademarkMain(matches[i].wordMark))
         THEN Ret(FALSE, TRUE, 1)
    ELSE InspectMatches(matches, main_name, i + 1)

\* app_API.py:114-140: the body of the try block
TrademarkTry(n, pos) ==
    IF pos \in tm_fault THEN Ret(TRUE, FALSE, 1)
    ELSE InspectMatches(TrademarkQuery, MainName(n), 1)

\* `except Exception: return False` around a try block whose outcome is r
Except(r) == IF r.raised THEN Ret(FALSE, FALSE, r.q) ELSE r

\* a variant of _check_trademark_index without the except clause
CheckTrademarkNoExcept(n, pos) ==
    IF trademark_index = "None" THEN Ret(FALSE, FALSE, 0)
    ELSE TrademarkTry(n, pos)

\* app_API.py:106-144 / app.py:104-144 _check_trademark_index
CheckTrademarkIndex(n, pos) ==
    IF trademark_index = "None" THEN Ret(FALSE, FALSE, 0)
    ELSE Except(TrademarkTry(n, pos))

\* app_API.py:88-99: the body of the try block
PrimaryTry(n, pos) ==
    IF pos \in primary_fault THEN Ret(TRUE, FALSE, 1)
    ELSE Ret(FALSE, n \in primary_db, 1)

\* a variant of _check_primary_index that queries through a None handle
CheckPrimaryNoGuard(n, pos) == Except(PrimaryTry(n, pos))

\* app_API.py:79-103 / app.py:76-101 _check_primary_index
CheckPrimaryIndex(n, pos) ==
    IF primary_index = "None" THEN Ret(FALSE, FALSE, 0)
    ELSE Except(PrimaryTry(n, pos))

\* `if p: return True` then `if t: return True`: t is evaluated only when p
\* returned false
ThenCheck(p, t) ==
    IF p.raised THEN p
    ELSE IF p.val THEN Ret(FALSE, TRUE, p.q)
    ELSE IF t.raised THEN Ret(TRUE, FALSE, p.q + t.q)
    ELSE Ret(FALSE, t.val, p.q + t.q)

\* `p.result() or t.result()` of two submitted checks: both have run
BothChecks(p, t) ==
    IF p.raised THEN Ret(TRUE, FALSE, p.q + t.q)
    ELSE IF p.val THEN Ret(FALSE, TRUE, p.q + t.q)
    ELSE IF t.raised THEN Ret(TRUE, FALSE, p.q + t.q)
    ELSE Ret(FALSE, t.val, p.q + t.q)

\* app_API.py:57-76 name_exists_in_database: the trademark index is asked
\* only when the primary index reports no match
NameExistsAPI(n, pos) == ThenCheck(CheckPrimaryIndex(n, pos), CheckTrademarkIndex(n, pos))

\* app.py:57-73 name_exists_in_database: both checks are submitted, then
\* primary_future.result() or trademark_future.result()
NameExistsApp(n, pos) == BothChecks(CheckPrimaryIndex(n, pos), CheckTrademarkIndex(n, pos))

----------------------------------------------------------------------------
(* Completion text.  The text the model answers with is a sequence of       *)
(* tokens [k, v]: the punctuation of JSON, a `"name": "v"` member, a        *)
(* `"description": "v"` member, a numbered line `1. "v"`, an               *)
(* `explanation: "v"` phrase, or other prose ("junk").                      *)

Tok(k, v) == [k |-> k, v |-> v]
LB == Tok("[", <<>>)
RB == Tok("]", <<>>)
LC == Tok("{", <<>>)
RC == Tok("}", <<>>)
Comma == Tok(",", <<>>)
Junk == Tok("junk", <<>>)
NameMember(v) == Tok("name", v)
DescMember(v) == Tok("description", v)
Numbered(v) == Tok("num", v)
Explanation(v) == Tok("explanation", v)

\* a dict with at most the keys "name" and "description"
Dict(hn, n, hd, d) == [hasName |-> hn, name |-> n, hasDesc |-> hd, description |-> d]
EmptyDict == Dict(FALSE, <<>>, FALSE, <<>>)

\* a later member of a JSON object replaces an earlier one of the same key
SetMember(d, tok) ==
    IF tok.k = "name" THEN [d EXCEPT !.hasName = TRUE, !.name = tok.v]
    ELSE [d EXCEPT !.hasDesc = TRUE, !.description = tok.v]

IsMember(tok) == tok.k \in {"name", "description"}

JsonError == [ok |-> FALSE, kind |-> "none", list |-> <<>>, dict |-> EmptyDict]
JsonList(l) == [ok |-> TRUE, kind |-> "list", list |-> l, dict |-> EmptyDict]
JsonDict(d) == [ok |-> TRUE, kind |-> "dict", list |-> <<>>, dict |-> d]

\* the state of the JSON parser: st is what it expects next, top the kind of
\* the outermost value, acc the objects of the array so far and cur the
\* object being read
JsonState(st, top, acc, cur) == [st |-> st, top |-> top, acc |-> acc, cur |-> cur]

\* json.loads reading one more token
JsonStep(s, t) ==
    CASE s.st = "start" /\ t.k = "[" -> JsonState("arr0", "list", s.acc, s.cur)
      [] s.st = "start" /\ t.k = "{" -> JsonState("obj0", "dict", s.acc, s.cur)
      [] s.st \in {"arr0", "arrNext"} /\ t.k = "{" -> JsonState("obj0", s.top, s.acc, EmptyDict)
      [] s.st \in {"arr0", "arrSep"} /\ t.k = "]" -> JsonState("end", s.top, s.acc, s.cur)
      [] s.st = "arrSep" /\ t.k = "," -> JsonState("arrNext", s.top, s.acc, s.cur)
      [] s.st \in {"obj0", "objNext"} /\ IsMember(t) ->
             JsonState("objSep", s.top, s.acc, SetMember(s.cur, t))
      [] s.st \in {"obj0", "objSep"} /\ t.k = "}" ->
             IF s.top = "list"
             THEN JsonState("arrSep", s.top, Append(s.acc, s.cur), EmptyDict)
             ELSE JsonState("end", s.top, s.acc, s.cur)
      [] s.st = "objSep" /\ t.k = "," -> JsonState("objNext", s.top, s.acc, s.cur)
      [] OTHER -> JsonState("error", s.top, s.acc, s.cur)

\* the parser's state after the tokens lo..hi, read in order from state s
RECURSIVE JsonScan(_, _, _, _)
RECURSIVE JsonScanRest(_, _, _, _)
JsonScan(toks, lo, hi, s) ==
    IF lo > hi THEN s
    ELSE IF lo = hi THEN JsonStep(s, toks[lo])
    ELSE JsonScanRest(toks, ((lo + hi) \div 2) + 1, hi, JsonScan(toks, lo, (lo + hi) \div 2, s))

\* the tokens lo..hi after the ones before them left the parser in state s
JsonScanRest(toks, lo, hi, s) ==
    IF s.st = "error" THEN s ELSE JsonScan(toks, lo, hi, s)

\* json.loads' result when the whole text left the parser in state s
JsonResult(s) ==
    IF s.st # "end" THEN JsonError
    ELSE IF s.top = "list" THEN JsonList(s.acc) ELSE JsonDict(s.cur)

\* json.loads(suggestions_text), app_API.py:184
JsonLoads(toks) ==
    JsonResult(JsonScan(toks, 1, Len(toks), JsonState("start", "none", <<>>, EmptyDict)))

\* re.findall: the captured groups of the tokens whose kind is in kinds, in
\* order; [^"]+ matches no empty string
Captures(hits) == [i \in 1..Len(hits) |-> hits[i].v]

FindAll(kinds, toks) ==
    LET Hit(t) == t.k \in kinds /\ t.v # <<>>
    IN  Captures(SelectSeq(toks, Hit))

\* app_API.py:187,190 names = re.findall(name_pattern, ...)
FindNames(toks) == FindAll({"name", "num"}, toks)
\* app_API.py:188,191 descriptions = re.findall(desc_pattern, ...)
FindDescriptions(toks) == FindAll({"description", "explanation"}, toks)

\* a variant of the pairing loop that reads the descriptions from the end
RECURSIVE PairUpShifted(_, _, _)
PairUpShifted(names, descriptions, i) ==
    IF i > Min(Len(names), Len(descriptions)) THEN <<>>
    ELSE <<Dict(TRUE, names[i], TRUE, descriptions[Len(descriptions) - i + 1])>>
         \o PairUpShifted(names, descriptions, i + 1)

\* app_API.py:193-198: the loop `for i in range(min(len(names), len(descriptions)))`
RECURSIVE PairUp(_, _, _)
PairUp(names, descriptions, i) ==
    IF i > Min(Len(names), Len(descriptions)) THEN <<>>
    ELSE <<Dict(TRUE, names[i], TRUE, descriptions[i])>> \o PairUp(names, descriptions, i + 1)

\* what the parsing step leaves in `suggestions`: the value json.loads gave,
\* or the pairs of the fallback
Parsed(fb, kind, list, dict) == [fallback |-> fb, kind |-> kind, list |-> list, dict |-> dict]

\* app_API.py:185-198: the except branch, the regex fallback
Fallback(toks) ==
    Parsed(TRUE, "list", PairUp(FindNames(toks), FindDescriptions(toks), 1), EmptyDict)

\* app_API.py:183-185: the value of json.loads, or the fallback on JSONDecodeError
AfterJson(j, toks) ==
    IF j.ok THEN Parsed(FALSE, j.kind, j.list, j.dict) ELSE Fallback(toks)

\* app_API.py:182-198 / app.py:182-198
ParseSuggestions(toks) == AfterJson(JsonLoads(toks), toks)

----------------------------------------------------------------------------
(* BusinessNameGenerator.generate_business_names.  Its outcome is           *)
(* [result, calls, log, q, parsed, notices]: the list returned, the         *)
(* completion calls made, the names checked, the queries issued, what the   *)
(* parsing step left and the Streamlit notices shown.                       *)

NotParsed == Parsed(FALSE, "none", <<>>, EmptyDict)

Gen(r, result, calls, log, q, parsed, notices) ==
    [raised |-> r, result |-> result, calls |-> calls, log |-> log, q |-> q,
     parsed |-> parsed, notices |-> notices]

Scan(r, uniq, log, q) == [raised |-> r, uniq |-> uniq, log |-> log, q |-> q]

NamesOf(l) == {l[k].name : k \in 1..Len(l)}

\* a variant of the duplicate test that never skips
IsDuplicateNever(n, uniq) == FALSE

\* app_API.py:205 `if name in [s["name"] for s in unique_suggestions]`
IsDuplicate(n, uniq) == n \in NamesOf(uniq)

\* a variant of the early stop that never stops
ReachedTargetNever(uniq) == FALSE

\* app_API.py:211 `if len(unique_suggestions) == 12`
ReachedTarget(uniq) == Len(uniq) = SeqTarget

\* app_API.py:201-214: the loop `for suggestion in suggestions`, from item i
\* on; acc holds unique_suggestions, the names checked and the queries so far
RECURSIVE FilterSeq(_, _, _)
RECURSIVE FilterChecked(_, _, _, _)
FilterSeq(l, i, acc) ==
    IF i > Len(l) THEN acc
    ELSE IF ~l[i].hasName THEN [acc EXCEPT !.raised = TRUE]
    ELSE IF IsDuplicate(l[i].name, acc.uniq) THEN FilterSeq(l, i + 1, acc)
    ELSE FilterChecked(l, i, NameExistsAPI(l[i].name, i),
                       Scan(FALSE, acc.uniq, Append(acc.log, l[i].name), acc.q))

\* app_API.py:209-212: item i after name_exists_in_database gave e for it
FilterChecked(l, i, e, acc) ==
    IF e.raised THEN [acc EXCEPT !.raised = TRUE, !.q = acc.q + e.q]
    ELSE IF e.val THEN FilterSeq(l, i + 1, [acc EXCEPT !.q = acc.q + e.q])
    ELSE IF ReachedTarget(Append(acc.uniq, l[i]))
         THEN [acc EXCEPT !.q = acc.q + e.q, !.uniq = Append(acc.uniq, l[i])]
    ELSE FilterSeq(l, i + 1, [acc EXCEPT !.q = acc.q + e.q, !.uniq = Append(acc.uniq, l[i])])

\* iterating a dict yields its keys, and indexing a key with "name" raises
IterateDict(d) == Scan(d.hasName \/ d.hasDesc, <<>>, <<>>, 0)

\* app_API.py:200-214: the filtering of what the parsing step left
FilterParsedSeq(p) ==
    IF p.kind = "dict" THEN IterateDict(p.dict)
    ELSE FilterSeq(p.list, 1, Scan(FALSE, <<>>, <<>>, 0))

GenSeq(p, f) == Gen(f.raised, f.uniq, 1, f.log, f.q, p, {})

GenSeqParsed(p) == GenSeq(p, FilterParsedSeq(p))

\* app_API.py:151-214: the body of the try block
GenerateSeqTry ==
    IF completion.raises THEN Gen(TRUE, <<>>, 1, <<>>, 0, NotParsed, {})
    ELSE GenSeqParsed(ParseSuggestions(completion.text))

\* a variant of the except clause that calls the completion client again
CatchSeqRetry(b) ==
    IF b.raised THEN [b EXCEPT !.raised = FALSE, !.result = <<>>, !.calls = 2] ELSE b

\* app_API.py:215-217 `except Exception`: print, return []
CatchSeq(b) ==
    IF b.raised THEN [b EXCEPT !.raised = FALSE, !.result = <<>>] ELSE b

\* app_API.py:148-217 generate_business_names, the sequential variant
GenerateSeq == CatchSeq(GenerateSeqTry)

\* name_exists_in_database gave e for the suggestion
Validated(suggestion, e) ==
    [raised |-> e.raised, keep |-> ~e.raised /\ ~e.val, called |-> TRUE,
     q |-> e.q, item |-> suggestion]

\* app.py:203-208 validate_name for the item at position i: it raises for
\* an item without "name", and returns the suggestion or None
ValidateName(suggestion, i) ==
    IF ~suggestion.hasName
    THEN [raised |-> TRUE, keep |-> FALSE, called |-> FALSE, q |-> 0, item |-> suggestion]
    ELSE Validated(suggestion, NameExistsApp(suggestion.name, i))

Items(rs) == [i \in 1..Len(rs) |-> rs[i].item]
ItemNames(rs) == [i \in 1..Len(rs) |-> rs[i].item.name]

Reverse(l) == [i \in 1..Len(l) |-> l[Len(l) + 1 - i]]

\* a variant of the filter that hands the kept items over last first
CollectReversed(rs) ==
    LET Kept(r) == r.keep
        Called(r) == r.called
    IN  Scan(\E i \in 1..Len(rs) : rs[i].raised,
             Reverse(Items(SelectSeq(rs, Kept))),
             ItemNames(SelectSeq(rs, Called)),
             Cardinality({i \in 1..Len(rs) : rs[i].q >= 1})
               + Cardinality({i \in 1..Len(rs) : rs[i].q >= 2}))

\* app.py:215 the filter of the None results, in the order of the batch
Collect(rs) ==
    LET Kept(r) == r.keep
        Called(r) == r.called
    IN  Scan(\E i \in 1..Len(rs) : rs[i].raised,
             Items(SelectSeq(rs, Kept)),
             ItemNames(SelectSeq(rs, Called)),
             Cardinality({i \in 1..Len(rs) : rs[i].q >= 1})
               + Cardinality({i \in 1..Len(rs) : rs[i].q >= 2}))

\* app.py:211-215: executor.map(validate_name, suggestions); every item is
\* submitted, so an item that raises does not stop the checks of the others,
\* and map keeps the order of the batch
FanOut(l) == Collect([i \in 1..Len(l) |-> ValidateName(l[i], i)])

\* app.py:221 unique_suggestions[:12]
Truncate(l) == SubSeq(l, 1, Min(SliceLimit, Len(l)))

\* a variant of the advisory that is raised only for an empty list
FewerNoticeOnlyEmpty(uniq) ==
    IF Len(uniq) = 0 THEN {"warning: fewer unique"} ELSE {}

\* app.py:218-219 st.warning("Some generated names already exist ...")
FewerNotice(uniq) ==
    IF Len(uniq) < MinDisplay THEN {"warning: fewer unique"} ELSE {}

\* app.py:200-215: the filtering of what the parsing step left
FilterParsedFanOut(p) ==
    IF p.kind = "dict" THEN IterateDict(p.dict) ELSE FanOut(p.list)

\* app.py:217-221: the advisory and the slice
GenFanOut(p, f) ==
    IF f.raised THEN Gen(TRUE, <<>>, 1, f.log, f.q, p, {})
    ELSE Gen(FALSE, Truncate(f.uniq), 1, f.log, f.q, p, FewerNotice(f.uniq))

GenFanOutParsed(p) == GenFanOut(p, FilterParsedFanOut(p))

\* app.py:151-221: the body of the try block
GenerateFanOutTry ==
    IF completion.raises THEN Gen(TRUE, <<>>, 1, <<>>, 0, NotParsed, {})
    ELSE GenFanOutParsed(ParseSuggestions(completion.text))

\* app.py:223-225 `except Exception`: st.error, return []
CatchFanOut(b) ==
    IF b.raised
    THEN [b EXCEPT !.raised = FALSE, !.result = <<>>, !.notices = {"error: generating"}]
    ELSE b

\* app.py:148-225 generate_business_names, the fan-out variant
GenerateFanOut == CatchFanOut(GenerateFanOutTry)

----------------------------------------------------------------------------
(* Operations *)

\* app_API.py:231 / app.py:349 `if not description`
DescriptionMissing(d) == d = <<>>

\* app_API.py:237-243: 500 for an empty list, 200 otherwise
StatusFor(result) == IF result = <<>> THEN 500 ELSE 200

\* app_API.py:235-243: the handler once generate_business_names gave g
Respond(g) ==
    /\ completion_calls' = completion_calls + g.calls
    /\ queries' = queries + g.q
    /\ checked' = g.log
    /\ suggestions' = g.parsed
    /\ unique_suggestions' = g.result
    /\ raised' = g.raised
    /\ status_code' = IF g.raised THEN 500 ELSE StatusFor(g.result)
    /\ body' = IF ~g.raised /\ StatusFor(g.result) = 200 THEN g.result ELSE <<>>

\* app_API.py:228-243 POST /generate-names
generate_names ==
    /\ pc = "idle"
    /\ pc' = "done"
    /\ op' = "api"
    /\ IF DescriptionMissing(description)
       THEN /\ status_code' = 400
            /\ UNCHANGED <<completion_calls, queries, checked, suggestions,
                           unique_suggestions, body, raised>>
       ELSE Respond(GenerateSeq)
    /\ UNCHANGED <<envVars, inVars, messages, generated_names, ret, conVars>>

\* app.py:370-376: what main shows for the list it got
MainNotice(names) ==
    IF names # <<>>
    THEN IF Len(names) < MinDisplay THEN {"info: filtered"} ELSE {}
    ELSE {"error: failed"}

\* app.py:359-376: main once generate_business_names gave g
Show(g) ==
    /\ completion_calls' = completion_calls + g.calls
    /\ queries' = queries + g.q
    /\ checked' = g.log
    /\ suggestions' = g.parsed
    /\ unique_suggestions' = g.result
    /\ raised' = g.raised
    /\ messages' = g.notices \cup MainNotice(g.result)
    /\ generated_names' = IF g.result # <<>> THEN g.result ELSE generated_names

\* app.py:348-379 main, a run in which the button was clicked
main ==
    /\ pc = "idle"
    /\ pc' = "done"
    /\ op' = "app"
    /\ IF DescriptionMissing(description)
       THEN /\ messages' = {"warning: enter description"}
            /\ UNCHANGED <<completion_calls, queries, checked, suggestions,
                           unique_suggestions, generated_names, raised>>
       ELSE Show(GenerateFanOut)
    /\ UNCHANGED <<envVars, inVars, status_code, body, ret, conVars>>

\* a direct call of a NameValidator method with argument `name`
Call(which, r) ==
    /\ pc = "idle"
    /\ pc' = "done"
    /\ op' = which
    /\ ret' = r
    /\ raised' = r.raised
    /\ queries' = queries + r.q
    /\ UNCHANGED <<envVars, inVars, completion_calls, checked, suggestions,
                   unique_suggestions, status_code, body, messages, generated_names,
                   conVars>>

\* app_API.py:57 NameValidator.name_exists_in_database(name)
name_exists_in_database_api == Call("exists_api", NameExistsAPI(name, 1))
\* app.py:57 NameValidator.name_exists_in_database(name)
name_exists_in_database_app == Call("exists_app", NameExistsApp(name, 1))
\* app_API.py:106 NameValidator._check_trademark_index(name)
check_trademark_index == Call("check_trademark", CheckTrademarkIndex(name, 1))
\* app_API.py:79 NameValidator._check_primary_index(name)
check_primary_index == Call("check_primary", CheckPrimaryIndex(name, 1))

----------------------------------------------------------------------------
(* The fan-out of app.py, task by task *)

reqVars == <<envVars, inVars, status_code, body, ret>>

\* a slot of validation_results whose task has not returned
Pending == [raised |-> FALSE, keep |-> FALSE, called |-> FALSE, q |-> 0, item |-> EmptyDict]

\* app.py:211-212 executor.map submits one task per item of the list
Submitted(p) ==
    /\ pc' = "mapping"
    /\ completion_calls' = completion_calls + 1
    /\ suggestions' = p
    /\ task' = [i \in 1..Len(p.list) |-> "queued"]
    /\ validation_results' = [i \in 1..Len(p.list) |-> Pending]
    /\ UNCHANGED <<queries, checked, unique_suggestions, raised, messages,
                   generated_names>>

\* a run of main that ends without a task: the description is missing, the
\* completion call raised, or json.loads gave a dict
Unmapped(g) ==
    /\ pc' = "done"
    /\ Show(g)
    /\ UNCHANGED <<task, validation_results>>

\* app.py:182-212 with the parsed suggestions p
SubmitParsed(p) ==
    IF p.kind = "dict" THEN Unmapped(CatchFanOut(GenFanOutParsed(p))) ELSE Submitted(p)

\* app.py:348-368, 150-212: main with the button clicked, up to the point
\* where every item of the batch is handed to the executor
submit ==
    /\ pc = "idle"
    /\ op' = "app"
    /\ IF DescriptionMissing(description)
       THEN /\ pc' = "done"
            /\ messages' = {"warning: enter description"}
            /\ UNCHANGED <<completion_calls, queries, checked, suggestions,
                           unique_suggestions, generated_names, raised, task,
                           validation_results>>
       ELSE IF completion.raises
            THEN Unmapped(GenerateFanOut)
            ELSE SubmitParsed(ParseSuggestions(completion.text))
    /\ UNCHANGED <<reqVars, overtaken, thread, pinecone_lock, session>>

Running == {j \in DOMAIN task : task[j] = "running"}

\* a worker of the pool takes the oldest queued task; the pool has at most
\* max_workers threads
start_task(i) ==
    /\ pc = "mapping"
    /\ task[i] = "queued"
    /\ \A j \in 1..(i - 1) : task[j] # "queued"
    /\ Cardinality(Running) < MaxWorkers
    /\ task' = [task EXCEPT ![i] = "running"]
    /\ UNCHANGED <<reqVars, pc, op, outVars, validation_results, overtaken, thread,
                   pinecone_lock, session>>

\* task i returned r, possibly before tasks submitted earlier
Finished(i, r) ==
    /\ task' = [task EXCEPT ![i] = "done"]
    /\ validation_results' = [validation_results EXCEPT ![i] = r]
    /\ overtaken' = (overtaken \/ \E j \in 1..(i - 1) : task[j] # "done")

\* app.py:203-208 validate_name(suggestions[i]) runs to its end on a worker;
\* its two index checks are taken as one step here
finish_task(i) ==
    /\ pc = "mapping"
    /\ task[i] = "running"
    /\ Finished(i, ValidateName(suggestions.list[i], i))
    /\ UNCHANGED <<reqVars, pc, op, outVars, thread, pinecone_lock, session>>

\* app.py:215-221, 223-225, 368-376 with the outcome g of the generation
Gathered(g) ==
    /\ queries' = queries + g.q
    /\ checked' = g.log
    /\ unique_suggestions' = g.result
    /\ raised' = g.raised
    /\ messages' = g.notices \cup MainNotice(g.result)
    /\ generated_names' = IF g.result # <<>> THEN g.result ELSE generated_names

\* app.py:212-221: the executor is left when every task is done; list(map)
\* yields the results in the order of submission (or raises), then the
\* filter, the advisory and the slice; main shows the list
gather ==
    /\ pc = "mapping"
    /\ \A i \in DOMAIN task : task[i] = "done"
    /\ pc' = "done"
    /\ Gathered(CatchFanOut(GenFanOut(suggestions, Collect(validation_results))))
    /\ UNCHANGED <<reqVars, op, completion_calls, suggestions, conVars>>

----------------------------------------------------------------------------
(* The index checks of app.py, thread by thread *)

\* app.py:69-70 the two checks name_exists_in_database submits for a name
Branches == {"primary", "trademark"}
ThreadIds(n) == (1..n) \X Branches

\* a check that has not begun
NotStarted == [pc |-> "ready", exc |-> FALSE, r |-> Ret(FALSE, FALSE, 0)]

\* app.py:80 / app.py:108 the global the check reads
Handle(b) == IF b = "primary" THEN primary_index ELSE trademark_index

\* the batch positions whose query raises, per index
Fault(b) == IF b = "primary" THEN primary_fault ELSE tm_fault

\* app.py:84-97 / app.py:112-140 the body of the `with` block of thread t
TryBlock(t) ==
    IF t[2] = "primary"
    THEN PrimaryTry(suggestions.list[t[1]].name, t[1])
    ELSE TrademarkTry(suggestions.list[t[1]].name, t[1])

\* a variant of the lock that never blocks
CanAcquireAlways(lock) == TRUE

\* app.py:84 / app.py:112 `with pinecone_lock:` blocks until the lock is free
CanAcquire(lock) == lock = Free

Step(t, to) == thread' = [thread EXCEPT ![t].pc = to]

threadFrame == <<reqVars, pc, op, outVars, task, validation_results, overtaken, session>>

\* app.py:80-81 / app.py:108-109: the check begins on its own thread once the
\* worker runs validate_name; without a handle it returns False at once
check_begin(t) ==
    /\ pc = "mapping"
    /\ task[t[1]] = "running"
    /\ suggestions.list[t[1]].hasName
    /\ thread[t].pc = "ready"
    /\ Step(t, IF Handle(t[2]) = "None" THEN "returned" ELSE "acquire")
    /\ UNCHANGED <<threadFrame, pinecone_lock>>

\* app.py:84 / app.py:112 entering `with pinecone_lock:`
acquire(t) ==
    /\ thread[t].pc = "acquire"
    /\ CanAcquire(pinecone_lock)
    /\ pinecone_lock' = t
    /\ Step(t, "locked")
    /\ UNCHANGED threadFrame

\* app.py:86 / app.py:118 the call of index.query begins
enter_query(t) ==
    /\ thread[t].pc = "locked"
    /\ Step(t, "querying")
    /\ UNCHANGED <<threadFrame, pinecone_lock>>

\* app.py:86-93 / app.py:118-122 index.query returns its matches or raises
exit_query(t) ==
    /\ thread[t].pc = "querying"
    /\ Step(t, IF t[1] \in Fault(t[2]) THEN "raising" ELSE "inspecting")
    /\ UNCHANGED <<threadFrame, pinecone_lock>>

\* the check of thread t left the `with` block with the outcome b of its body
Released(t, b) ==
    /\ pinecone_lock' = Free
    /\ thread' = [thread EXCEPT ![t] = [pc |-> "returned", exc |-> b.raised, r |-> Except(b)]]

\* app.py:96-101 / app.py:125-144: the matches are inspected, the `with`
\* block is left by `return` or by an exception, which releases the lock, and
\* `except Exception` turns an exception into False
release(t) ==
    /\ thread[t].pc \in {"inspecting", "raising"}
    /\ Released(t, TryBlock(t))
    /\ UNCHANGED threadFrame

\* the two checks of task i returned p and t
Joined(i, p, t) == Finished(i, Validated(suggestions.list[i], BothChecks(p, t)))

\* app.py:73, 206-208: name_exists_in_database waits for both futures and
\* validate_name returns; an item without "name" raises before any check
join(i) ==
    /\ pc = "mapping"
    /\ task[i] = "running"
    /\ IF suggestions.list[i].hasName
       THEN /\ \A b \in Branches : thread[<<i, b>>].pc = "returned"
            /\ Joined(i, thread[<<i, "primary">>].r, thread[<<i, "trademark">>].r)
       ELSE Finished(i, ValidateName(suggestions.list[i], i))
    /\ UNCHANGED <<reqVars, pc, op, outVars, thread, pinecone_lock, session>>

----------------------------------------------------------------------------
(* The index handles of app.py over sessions *)

\* a browser session whose st.session_state is still empty
NewSession ==
    [started |-> FALSE, pc |-> "none", primary_future |-> "pending",
     trademark_future |-> "pending"]

\* the verify_indexes thread of a session after its last assignment
Verified ==
    [started |-> TRUE, pc |-> "done", primary_future |-> "pending",
     trademark_future |-> "pending"]

sessionFrame == <<primary_db, tm_records, primary_fault, tm_fault, inVars, pc, op,
                  outVars, task, validation_results, overtaken, thread, pinecone_lock>>

\* app.py:240-242, 46-48: the first run of main in session s sets
\* index_verification_started and starts verify_indexes on a thread, which
\* submits the two connections
main_first_run(s) ==
    /\ ~session[s].started
    /\ session' = [session EXCEPT ![s].started = TRUE, ![s].pc = "connecting"]
    /\ UNCHANGED <<sessionFrame, primary_index, trademark_index>>

\* app.py:39-43 connect_to_index on a pool thread: pc.Index(index_name)
\* gives a handle, or raises and None is returned
connect_to_index(s, b, ok) ==
    /\ session[s].pc \in {"connecting", "assign_trademark"}
    /\ IF b = "primary"
       THEN /\ session[s].primary_future = "pending"
            /\ session[s].pc = "connecting"
            /\ session' = [session EXCEPT
                              ![s].primary_future = IF ok THEN "Index" ELSE "None"]
       ELSE /\ session[s].trademark_future = "pending"
            /\ session' = [session EXCEPT
                              ![s].trademark_future = IF ok THEN "Index" ELSE "None"]
    /\ UNCHANGED <<sessionFrame, primary_index, trademark_index>>

\* app.py:52 primary_index = primary_future.result()
assign_primary(s) ==
    /\ session[s].pc = "connecting"
    /\ session[s].primary_future # "pending"
    /\ primary_index' = session[s].primary_future
    /\ session' = [session EXCEPT ![s].pc = "assign_trademark",
                                  ![s].primary_future = "pending"]
    /\ UNCHANGED <<sessionFrame, trademark_index>>

\* app.py:53 trademark_index = trademark_future.result()
assign_trademark(s) ==
    /\ session[s].pc = "assign_trademark"
    /\ session[s].trademark_future # "pending"
    /\ trademark_index' = session[s].trademark_future
    /\ session' = [session EXCEPT ![s] = Verified]
    /\ UNCHANGED <<sessionFrame, primary_index>>

\* app.py:227-237 the script runs again after a run with the button clicked:
\* the notices are drawn anew, st.session_state is kept
rerun ==
    /\ pc = "done"
    /\ completion_calls < MaxRuns
    /\ pc' = "idle"
    /\ op' = "none"
    /\ messages' = {}
    /\ UNCHANGED <<envVars, inVars, completion_calls, queries, checked, suggestions,
                   unique_suggestions, raised, status_code, body, generated_names,
                   ret, conVars>>

----------------------------------------------------------------------------
(* Inputs and initial states *)

Handles == {"None", "Index"}

\* completion texts made of chunks, optionally inside [ ] and separated by commas
RECURSIVE Join(_, _, _)
Join(cs, sep, i) ==
    IF i > Len(cs) THEN <<>>
    ELSE (IF sep /\ i > 1 THEN <<Comma>> ELSE <<>>) \o cs[i] \o Join(cs, sep, i + 1)

ChunkText(cs, wrap, sep) ==
    (IF wrap THEN <<LB>> ELSE <<>>) \o Join(cs, sep, 1) \o (IF wrap THEN <<RB>> ELSE <<>>)

JsonObject(n, d) == <<LC, NameMember(n), Comma, DescMember(d), RC>>

N1 == <<"a">>
N2 == <<"b">>
D1 == <<"x">>
D2 == <<"y">>

ChunkSet ==
    { JsonObject(N1, D1), JsonObject(N2, D2), JsonObject(<<>>, D1),
      <<LC, NameMember(N1), RC>>, <<LC, DescMember(D2), RC>>,
      <<Numbered(N1), Explanation(D1)>>, <<Numbered(N2), Explanation(D2)>>,
      <<Numbered(N2)>>, <<Explanation(D1)>>, <<Junk>> }

ChunkTexts ==
    {ChunkText(cs, w, s) : cs \in StrUpTo(ChunkSet, MaxChunks), w \in BOOLEAN, s \in BOOLEAN}

\* the JSON array the prompt asks for, one object per name of the batch
JsonText(batch) == ChunkText([k \in 1..Len(batch) |-> JsonObject(batch[k], D1)], TRUE, TRUE)

BatchNames == {<<"a">>, <<"A">>, <<"b">>}
ShortBatches == StrUpTo(BatchNames, MaxShort)

LongChars == <<"a", "b", "c", "d">>
LongName(k) == <<LongChars[((k - 1) \div 4) + 1], LongChars[((k - 1) % 4) + 1]>>
\* n names, pairwise different unless dup, and then the last repeats the first
LongBatch(n, dup) == [k \in 1..n |-> IF dup /\ k = n THEN LongName(1) ELSE LongName(k)]
LongBatches == {LongBatch(n, dup) : n \in (MaxLong - 1)..MaxLong, dup \in BOOLEAN}

FreeTexts ==
    { <<>>, <<Junk>>, <<LC, NameMember(N1), RC>>,
      <<Numbered(N1), Explanation(D1), Numbered(N2), Explanation(D2)>> }

Raises == [raises |-> TRUE, text |-> <<>>]
Answers(t) == [raises |-> FALSE, text |-> t]

Requests ==
    ({<<"c">>} \X ({Raises} \cup {Answers(t) : t \in FreeTexts}
                            \cup {Answers(JsonText(b)) : b \in ShortBatches \cup LongBatches}))
    \cup ({<<>>, <<" ">>} \X {Raises, Answers(JsonText(<<N2>>))})

Idle ==
    /\ pc = "idle"
    /\ op = "none"
    /\ completion_calls = 0
    /\ queries = 0
    /\ checked = <<>>
    /\ suggestions = NotParsed
    /\ unique_suggestions = <<>>
    /\ raised = FALSE
    /\ status_code = 0
    /\ body = <<>>
    /\ messages = {}
    /\ generated_names = <<>>
    /\ ret = Ret(FALSE, FALSE, 0)
    /\ overtaken = FALSE
    /\ pinecone_lock = Free

\* no task submitted, no check thread, no browser session
NoThreads ==
    /\ task = <<>>
    /\ validation_results = <<>>
    /\ thread = <<>>
    /\ session = <<>>

\* one request against either front end, in every state of the two indexes
Init ==
    /\ primary_index \in Handles
    /\ trademark_index \in Handles
    /\ primary_db \in {{}, {<<"a">>}, {LongName(2)}}
    /\ tm_records \in {<<>>, <<WordMark(<<"A">>)>>, <<NoMetadata>>}
    /\ primary_fault \in {{}, {1}}
    /\ tm_fault \in {{}, {2}}
    /\ \E r \in Requests : description = r[1] /\ completion = r[2]
    /\ name = <<>>
    /\ Idle
    /\ NoThreads

Next == generate_names \/ main

Spec == Init /\ [][Next]_vars

\* one request whose completion text is free-form
InitParse ==
    /\ \E h \in Handles : primary_index = h /\ trademark_index = h
    /\ primary_db = {N2}
    /\ tm_records = <<>>
    /\ primary_fault = {}
    /\ tm_fault = {}
    /\ description = <<"c">>
    /\ completion \in {Answers(t) : t \in ChunkTexts}
    /\ name = <<>>
    /\ Idle
    /\ NoThreads

SpecParse == InitParse /\ [][Next]_vars

\* word-marks: every head, alone or followed by " - " and a tail
WordMarks ==
    {h \o s : h \in StrUpTo(Chars, MaxHeadLen), s \in {<<>>, <<" ", "-", " ", "b">>}}

\* more records than one query returns, the only word-mark being the last
Overfull(w) == [k \in 1..(TopK + 1) |-> IF k = TopK + 1 THEN WordMark(w) ELSE NoWordMark]
Full(w) == [k \in 1..TopK |-> IF k = TopK THEN WordMark(w) ELSE NoWordMark]

\* one direct call of a NameValidator method: every outcome of the two
\* branches for a few names, and every short name against every word-mark
InitExists ==
    /\ \/ /\ primary_index \in Handles
          /\ trademark_index \in Handles
          /\ name \in BatchNames
          /\ primary_db \in {{}, {<<"a">>}}
          /\ tm_records \in {<<>>, <<WordMark(<<"B">>)>>, <<NoMetadata, WordMark(<<"B">>)>>,
                             <<WordMark(<<"B">>), NoMetadata>>, <<NoWordMark, WordMark(<<"a">>)>>,
                             Overfull(<<"a">>), Full(<<"a">>)}
          /\ primary_fault \in {{}, {1}}
          /\ tm_fault \in {{}, {1}}
       \/ /\ primary_index = "Index"
          /\ trademark_index = "Index"
          /\ name \in StrUpTo(Chars, MaxNameLen)
          /\ primary_db = {}
          /\ tm_records \in {<<WordMark(w)>> : w \in WordMarks}
          /\ primary_fault = {}
          /\ tm_fault = {}
    /\ description = <<>>
    /\ completion = Raises
    /\ Idle
    /\ NoThreads

NextExists ==
    \/ name_exists_in_database_api
    \/ name_exists_in_database_app
    \/ check_trademark_index
    \/ check_primary_index

SpecExists == InitExists /\ [][NextExists]_vars

\* the trademark index holds the first five names of a long batch
FiveMarks == [k \in 1..5 |-> WordMark(LongName(k))]

\* batches of pairwise different names
FanBatches == {LongBatch(n, FALSE) : n \in {MaxFan, MaxLong}}

\* one run of main whose batch is validated task by task
InitFanOut ==
    /\ \/ /\ primary_index \in Handles
          /\ trademark_index \in Handles
          /\ primary_db \in {{}, {<<"a">>}}
          /\ tm_records \in {<<>>, <<WordMark(<<"B">>)>>}
          /\ primary_fault \in {{}, {1}}
          /\ completion \in {Answers(JsonText(b)) : b \in ShortBatches}
       \/ /\ primary_index = "Index"
          /\ trademark_index = "Index"
          /\ primary_db = {}
          /\ tm_records \in {<<>>, FiveMarks}
          /\ primary_fault = {}
          /\ completion \in {Answers(JsonText(b)) : b \in FanBatches}
    /\ tm_fault = {}
    /\ description = <<"c">>
    /\ name = <<>>
    /\ Idle
    /\ NoThreads

NextFanOut ==
    \/ submit
    \/ \E i \in DOMAIN task : start_task(i)
    \/ \E i \in DOMAIN task : finish_task(i)
    \/ gather

SpecFanOut == InitFanOut /\ [][NextFanOut]_vars

LockBatches == {LongBatch(n, FALSE) : n \in 1..MaxLockBatch}

\* one run of main whose index checks are followed thread by thread
InitLock ==
    /\ primary_index \in Handles
    /\ trademark_index \in Handles
    /\ primary_db = {LongName(1)}
    /\ tm_records \in {<<WordMark(LongName(2))>>, <<NoMetadata>>}
    /\ primary_fault \in {{}, {1}}
    /\ tm_fault \in {{}, {1}}
    /\ description = <<"c">>
    /\ \E b \in LockBatches :
          /\ completion = Answers(JsonText(b))
          /\ thread = [t \in ThreadIds(Len(b)) |-> NotStarted]
    /\ name = <<>>
    /\ Idle
    /\ task = <<>>
    /\ validation_results = <<>>
    /\ session = <<>>

NextLock ==
    \/ submit
    \/ \E i \in DOMAIN task : start_task(i)
    \/ \E t \in DOMAIN thread : check_begin(t)
    \/ \E t \in DOMAIN thread : acquire(t)
    \/ \E t \in DOMAIN thread : enter_query(t)
    \/ \E t \in DOMAIN thread : exit_query(t)
    \/ \E t \in DOMAIN thread : release(t)
    \/ \E i \in DOMAIN task : join(i)
    \/ gather

SpecLock == InitLock /\ [][NextLock]_vars

\* the process after the module-level statements of app.py, no session yet
InitLifecycle ==
    /\ primary_index = "None"
    /\ trademark_index = "None"
    /\ primary_db = {N1}
    /\ tm_records \in {<<>>, <<WordMark(N2)>>}
    /\ primary_fault = {}
    /\ tm_fault = {}
    /\ description = <<"c">>
    /\ completion = Answers(JsonText(<<N1, N2>>))
    /\ name = <<>>
    /\ Idle
    /\ task = <<>>
    /\ validation_results = <<>>
    /\ thread = <<>>
    /\ session = [s \in 1..MaxSessions |-> NewSession]

NextLifecycle ==
    \/ \E s \in DOMAIN session : main_first_run(s)
    \/ \E s \in DOMAIN session, b \in Branches, ok \in BOOLEAN : connect_to_index(s, b, ok)
    \/ \E s \in DOMAIN session : assign_primary(s)
    \/ \E s \in DOMAIN session : assign_trademark(s)
    \/ main
    \/ rerun

SpecLifecycle == InitLifecycle /\ [][NextLifecycle]_vars

----------------------------------------------------------------------------
(* Properties *)

ApiDone == pc = "done" /\ op = "api"
AppDone == pc = "done" /\ op = "app"

\* no two entries of l have the same name
DistinctNames(l) ==
    \A i, j \in 1..Len(l) : i # j => l[i].name # l[j].name

\* the parsing step left a list whose items all have a name
WellFormedBatch ==
    /\ suggestions.kind = "list"
    /\ \A i \in 1..Len(suggestions.list) : suggestions.list[i].hasName

\* C1: a description that is empty or only whitespace is rejected as an input
\* error (400 from POST /generate-names, the "enter a description" warning in
\* main) and the completion client is not called
C1_BlankRejected ==
    (pc = "done" /\ op \in {"api", "app"} /\ Strip(description) = <<>>) =>
        /\ completion_calls = 0
        /\ op = "api" => status_code = 400
        /\ op = "app" => messages = {"warning: enter description"}

\* C2: the list the sequential variant returns holds no two entries with the
\* same name, whatever the batch and the outcomes of the existence checks
C2_SeqNoDuplicates ==
    ApiDone => DistinctNames(unique_suggestions) /\ DistinctNames(body)

\* C2 witness: a name that occurs twice in the batch is in the returned list
C2_Witness ==
    /\ ApiDone
    /\ status_code = 200
    /\ \E i, j \in 1..Len(suggestions.list) :
          /\ i < j
          /\ suggestions.list[i].name = suggestions.list[j].name
          /\ suggestions.list[i].name \in NamesOf(unique_suggestions)

\* C3: the list the fan-out variant returns never holds two suggestions with
\* the same name
C3_FanOutNoDuplicates ==
    AppDone => DistinctNames(unique_suggestions)

FirstOccurrences(l) ==
    {i \in 1..Len(l) : \A j \in 1..(i - 1) : l[j].name # l[i].name}

\* l without the later duplicates of a name, in the order of l
Deduplicated(l) ==
    [k \in 1..Cardinality(FirstOccurrences(l)) |->
        l[CHOOSE i \in FirstOccurrences(l) :
            Cardinality({j \in FirstOccurrences(l) : j <= i}) = k]]

FirstTwelve(l) == SubSeq(l, 1, Min(12, Len(l)))

\* C5: with both index handles None, name_exists_in_database is false for
\* every name and issues no query, and the sequential pipeline returns the
\* parsed list without its later duplicates, cut to 12, in the original order
C5_FailOpen ==
    (primary_index = "None" /\ trademark_index = "None") =>
        /\ \A n \in BatchNames, pos \in 1..2 : NameExistsAPI(n, pos) = Ret(FALSE, FALSE, 0)
        /\ (ApiDone /\ ~DescriptionMissing(description) /\ ~completion.raises
              /\ WellFormedBatch) =>
                /\ queries = 0
                /\ unique_suggestions = FirstTwelve(Deduplicated(suggestions.list))

\* C5 witness: both handles None, a batch with a repeated name went through
C5_Witness ==
    /\ ApiDone
    /\ primary_index = "None"
    /\ trademark_index = "None"
    /\ WellFormedBatch
    /\ Len(suggestions.list) > Len(unique_suggestions)
    /\ Len(unique_suggestions) >= 1

\* the records a trademark query returned to the direct call
C_Returned ==
    IF trademark_index = "Index" /\ 1 \notin tm_fault
    THEN SubSeq(tm_records, 1, Min(10, Len(tm_records)))
    ELSE <<>>

\* the part of n before the first "-", without surrounding whitespace
C_MainName(n) == Strip(IF Contains(<<"-">>, n) THEN SplitFirst(n, <<"-">>) ELSE n)

\* the part of w before the first " - ", or all of w
C_Head(w) == IF Contains(SpacedDash, w) THEN SplitFirst(w, SpacedDash) ELSE w

\* the part of w before the first " - " without surrounding whitespace, or all of w
C_HeadTrimmed(w) == IF Contains(SpacedDash, w) THEN Strip(SplitFirst(w, SpacedDash)) ELSE w

\* one is a substring of the other, case-insensitively
C_Overlap(x, y) ==
    Contains(Lower(x), Lower(y)) \/ Contains(Lower(y), Lower(x))

\* some returned record whose inspection is reached has a matching word-mark
C_TrademarkHit ==
    \E i \in 1..Len(C_Returned) :
        /\ C_Returned[i].has
        /\ C_Overlap(C_MainName(name), C_HeadTrimmed(C_Returned[i].wordMark))
        /\ \A j \in 1..(i - 1) : C_Returned[j].meta # "None"

C_PrimaryHit ==
    primary_index = "Index" /\ 1 \notin primary_fault /\ name \in primary_db

\* C6: name_exists_in_database never raises; a branch that raises counts as
\* false and the result is primary-hit or trademark-hit of the other branches
C6_NeverRaises ==
    (pc = "done" /\ op \in {"exists_api", "exists_app"}) =>
        /\ ~ret.raised
        /\ ~raised
        /\ ret.val = (C_PrimaryHit \/ C_TrademarkHit)

\* C6 witness: the primary query raised and the trademark hit was returned
C6_Witness ==
    /\ pc = "done"
    /\ op = "exists_app"
    /\ primary_index = "Index"
    /\ 1 \in primary_fault
    /\ name \in primary_db
    /\ ret.val

\* C7 as stated: _check_trademark_index is true exactly when a returned
\* record has a word-mark whose part before the first " - " (or the whole
\* word-mark) overlaps mainName
C7_AsStated ==
    (pc = "done" /\ op = "check_trademark") =>
        ret.val = (\E i \in 1..Len(C_Returned) :
                      /\ C_Returned[i].has
                      /\ C_Overlap(C_MainName(name), C_Head(C_Returned[i].wordMark)))

\* C7 amended: the part before the first " - " is trimmed of whitespace, and
\* a record is inspected only when no record before it lacks metadata
C7_TrademarkCheck ==
    (pc = "done" /\ op = "check_trademark") =>
        /\ ~ret.raised
        /\ ret.val = C_TrademarkHit

\* C7 witness: the check is true for a word-mark whose untrimmed head does
\* not overlap the name
C7_Witness ==
    /\ pc = "done"
    /\ op = "check_trademark"
    /\ ret.val
    /\ Len(tm_records) = 1
    /\ ~C_Overlap(C_MainName(name), C_Head(tm_records[1].wordMark))

Errors == {"error: failed", "error: generating"}

\* a completion call that succeeded and a batch the filter went through
C_Filtered ==
    /\ ~DescriptionMissing(description)
    /\ ~completion.raises
    /\ WellFormedBatch
    /\ \A i \in 1..Len(suggestions.list) :
          ~NameExistsApp(suggestions.list[i].name, i).raised

\* C9 as stated: fewer than 6 accepted names (0 included) after a successful
\* completion call give an advisory and the partial list as a success in the
\* Streamlit variant; only POST /generate-names turns zero into a failure
C9_AsStated ==
    (AppDone /\ C_Filtered /\ Len(unique_suggestions) < 6) =>
        /\ "warning: fewer unique" \in messages
        /\ messages \cap Errors = {}
        /\ generated_names = unique_suggestions

\* C9 amended: 1 to 5 accepted names give the advisory and the partial list
\* as a success; zero accepted names give the advisory and then a failure in
\* both front ends: st.error in main, 500 from POST /generate-names
C9_UnderFilled ==
    /\ (AppDone /\ C_Filtered /\ Len(unique_suggestions) < 6) =>
          /\ "warning: fewer unique" \in messages
          /\ Len(unique_suggestions) >= 1 =>
                /\ messages \cap Errors = {}
                /\ "info: filtered" \in messages
                /\ generated_names = unique_suggestions
          /\ Len(unique_suggestions) = 0 =>
                /\ "error: failed" \in messages
                /\ generated_names = <<>>
    /\ (AppDone /\ C_Filtered /\ Len(unique_suggestions) >= 6) => messages = {}
    /\ (ApiDone /\ C_Filtered /\ Len(unique_suggestions) = 0) => status_code = 500

\* C9 witness: the Streamlit variant handed over a list of 1 to 5 names
C9_Witness ==
    /\ AppDone
    /\ C_Filtered
    /\ Len(unique_suggestions) \in 1..5
    /\ Len(suggestions.list) > Len(unique_suggestions)
    /\ generated_names = unique_suggestions

\* the i-th extracted name with the i-th extracted description
C_Pairs(names, descriptions) ==
    [i \in 1..Min(Len(names), Len(descriptions)) |->
        Dict(TRUE, names[i], TRUE, descriptions[i])]

\* C10: the regex fallback runs only when json.loads fails; it pairs the i-th
\* name with the i-th description up to the shorter list and drops the rest;
\* zero pairs give an empty list and an empty result, with one completion call
C10_Parsing ==
    (pc = "done" /\ op \in {"api", "app"} /\ ~DescriptionMissing(description)
        /\ ~completion.raises) =>
        /\ suggestions.fallback = ~JsonLoads(completion.text).ok
        /\ ~suggestions.fallback =>
              /\ suggestions.kind = JsonLoads(completion.text).kind
              /\ suggestions.list = JsonLoads(completion.text).list
        /\ suggestions.fallback =>
              /\ suggestions.kind = "list"
              /\ suggestions.list = C_Pairs(FindNames(completion.text),
                                            FindDescriptions(completion.text))
              /\ suggestions.list = <<>> =>
                    unique_suggestions = <<>> /\ completion_calls = 1

\* C10 witness: the fallback paired fewer names than it extracted
C10_Witness ==
    /\ pc = "done"
    /\ suggestions.fallback
    /\ Len(FindNames(completion.text)) > Len(FindDescriptions(completion.text))
    /\ Len(suggestions.list) >= 1
    /\ Len(suggestions.list) = Len(FindDescriptions(completion.text))

\* C14: in the sequential variant an existence check is issued only for the
\* first occurrence of a name in the batch: a later suggestion with the name
\* of an earlier one is dropped unchecked, whether the earlier one was
\* accepted or rejected as colliding
C14_CheckedOncePerName ==
    (ApiDone /\ WellFormedBatch) =>
        \A i, j \in 1..Len(checked) : i # j => checked[i] # checked[j]

FanOutDone == pc = "done" /\ op = "app" /\ task # <<>>

\* the positions of the batch whose name is in neither index
C_Free(l) == {i \in 1..Len(l) : ~NameExistsApp(l[i].name, i).val}

\* the items of l at the positions P, in the order of l
C_Keep(l, P) ==
    [k \in 1..Cardinality(P) |->
        l[CHOOSE i \in P : Cardinality({j \in P : j <= i}) = k]]

C_FirstN(l, n) == SubSeq(l, 1, Min(n, Len(l)))

C_DistinctBatch == WellFormedBatch /\ DistinctNames(suggestions.list)

C_Inside == {t \in DOMAIN thread : thread[t].pc \in {"locked", "querying", "inspecting", "raising"}}

\* C12: at most one thread at a time is inside an index query, every query is
\* issued by the holder of pinecone_lock, and a thread that left the `with`
\* block, by return or by exception, no longer holds the lock
C12_Serialized ==
    /\ Cardinality({t \in DOMAIN thread : thread[t].pc = "querying"}) <= 1
    /\ \A t \in C_Inside : pinecone_lock = t
    /\ \A t \in DOMAIN thread \ C_Inside : pinecone_lock # t
    /\ (pc = "done" /\ thread # <<>>) =>
          /\ pinecone_lock = Free
          /\ \A t \in DOMAIN thread : thread[t].pc = "returned"

\* C12 witness: a thread is inside a query while another waits for the lock
\* that a third one released when its query raised
C12_Witness ==
    \E t, u, w \in DOMAIN thread :
        /\ thread[t].pc = "querying"
        /\ thread[u].pc = "acquire"
        /\ thread[w].pc = "returned"
        /\ thread[w].exc

\* C13: once an index handle is connected it never reverts to unavailable,
\* over any sequence of sessions and requests
C13_NeverReverts ==
    [][/\ primary_index = "Index" => primary_index' = "Index"
       /\ trademark_index = "Index" => trademark_index' = "Index"]_vars

====
